---- MODULE Spec2Model ----
(***************************************************************************)
(* A model of lib/easy_cfs_images.js: ImageCollectionFactory (constructor, *)
(* createImageCollection, the FS.File.prototype.url override, the          *)
(* transformWrite of every sized store) and EasyImages (configure,         *)
(* bucketUrl).  FS.Collection, FS.Store.S3, gm and the original            *)
(* FS.File.prototype.url are collaborators outside the file; they are      *)
(* modelled only as far as the file relies on them.                        *)
(***************************************************************************)
EXTENDS Integers, Sequences, FiniteSets, TLC

VARIABLES
    factories,    \* the ImageCollectionFactory objects constructed so far
    getHeaders,   \* headers set by FS.HTTP.setHeadersForGet
    protoUrl,     \* FS.File.prototype.url
    proto_url,    \* FS.File.prototype._url
    collections,  \* the FS.Collection objects createImageCollection returned
    gmAvailable,  \* gm.isAvailable
    files,        \* the files admitted into a collection, with their copies
    easyFactory,  \* EasyImages.imageCollectionFactory
    ret           \* the last insert / url / configure / bucketUrl call and
                  \* what it produced

vars == <<factories, getHeaders, protoUrl, proto_url, collections,
          gmAvailable, files, easyFactory, ret>>

-----------------------------------------------------------------------------
(* Bounds of the model *)

MaxFactories == 2
MaxCollections == 2
MaxFiles == 1
\* depth of nested calls after which the engine raises RangeError
StackLimit == 3
\* stores of one factory while files are uploaded
MaxStores == 4

-----------------------------------------------------------------------------
(* Inputs *)

BucketNames == {"photos", "media"}

\* an options argument: defined = FALSE is a call without options; keys are
\* the properties the object has
Options(keys, pr, region) ==
    [defined |-> TRUE, keys |-> keys, publicRead |-> pr, bucketRegion |-> region]
NoOptions ==
    [defined |-> FALSE, keys |-> {}, publicRead |-> FALSE, bucketRegion |-> ""]
OptionsSet ==
    { NoOptions,
      Options({"bucketRegion"}, FALSE, ""),
      Options({"bucketRegion"}, FALSE, "eu-west-1"),
      Options({"publicRead"}, TRUE, "") }

CollectionNames == {"", "avatars"}

Size(n, x, y) == [name |-> n, dimensions |-> <<x, y>>]
\* a sizes argument: the properties of the object in enumeration order
SizesSet ==
    { <<Size("thumb", 50, 50)>>,
      <<Size("thumb", 50, 50), Size("normal", 800, 400)>>,
      <<Size("original", 300, 300)>>,
      <<Size("thumb", 0, -1)>> }

\* the configurations the files are uploaded under
FilesBucketNames == {"photos"}
FilesOptions ==
    { NoOptions,
      Options({"publicRead", "bucketRegion"}, TRUE, "eu-west-1") }
FilesCollectionNames == {"avatars"}
FilesSizes ==
    { <<Size("thumb", 50, 50)>>,
      <<Size("thumb", 50, 50), Size("normal", 800, 400)>> }

-----------------------------------------------------------------------------
(* ImageCollectionFactory *)

\* a ceiling of 10 MB counted in powers of ten
MaxFileSizeDecimal == 1000 * 1000 * 10
MAX_FILE_SIZE == 1024 * 1024 * 10

\* the region appended without its hyphen
RegionSuffixNoHyphen(options) ==
    IF options.defined /\ "bucketRegion" \in options.keys
    THEN options.bucketRegion ELSE ""

\* options && options.bucketRegion || "", then the "-" prefix
RegionSuffix(options) ==
    LET region == IF options.defined /\ "bucketRegion" \in options.keys
                  THEN options.bucketRegion ELSE ""
    IN  IF region # "" THEN "-" \o region ELSE region

BucketUrl(bucketName, options) ==
    "https://" \o bucketName \o RegionSuffix(options) \o ".s3.amazonaws.com/"

\* options && options.publicRead, as a truth value
PublicRead(options) ==
    options.defined /\ "publicRead" \in options.keys /\ options.publicRead

Acl(options) == IF PublicRead(options) THEN "public-read" ELSE "private"

\* a method installed on FS.File.prototype
OriginalMethod == [kind |-> "original", factory |-> 0]
OverrideMethod(i) == [kind |-> "override", factory |-> i]
NoMethod == [kind |-> "undefined", factory |-> 0]

NewFactory(bucketName, options) ==
    /\ Len(factories) < MaxFactories
    /\ getHeaders' = <<<<"Cache-Control", "public, max-age=31536000">>>>
    /\ factories' = Append(factories,
          [ bucketName |-> bucketName,
            options    |-> options,
            bucketUrl  |-> BucketUrl(bucketName, options),
            acl        |-> Acl(options),
            publicRead |-> PublicRead(options),
            stores     |-> <<>> ])
    /\ IF PublicRead(options) /\ BucketUrl(bucketName, options) # ""
       THEN /\ proto_url' = protoUrl
            /\ protoUrl' = OverrideMethod(Len(factories) + 1)
       ELSE UNCHANGED <<protoUrl, proto_url>>
    /\ UNCHANGED <<collections, gmAvailable, files, easyFactory, ret>>

-----------------------------------------------------------------------------
(* createImageCollection *)

\* new FS.Store.S3(name, {...}) without transformWrite
OriginalStore(f, collectionName) ==
    [ name      |-> collectionName \o "-original",
      bucket    |-> factories[f].bucketName,
      folder    |-> collectionName \o "-original",
      ACL       |-> factories[f].acl,
      transform |-> FALSE,
      x |-> 0, y |-> 0 ]

\* new FS.Store.S3(name, {..., transformWrite}) for one entry of sizes;
\* x and y are the dimensions the transformWrite closure captures
SizedStore(f, collectionName, size) ==
    [ name      |-> collectionName \o "-" \o size.name,
      bucket    |-> factories[f].bucketName,
      folder    |-> collectionName \o "-" \o size.name,
      ACL       |-> factories[f].acl,
      transform |-> TRUE,
      x |-> size.dimensions[1], y |-> size.dimensions[2] ]

\* factory.stores after the push of the original and the _.each over sizes
PushStores(f, collectionName, sizes) ==
    factories[f].stores
        \o <<OriginalStore(f, collectionName)>>
        \o [k \in 1..Len(sizes) |-> SizedStore(f, collectionName, sizes[k])]

\* the filter option every collection is created with
Filter ==
    [ maxSize      |-> MAX_FILE_SIZE,
      contentTypes |-> {<<"image", "*">>},
      extensions   |-> {"png", "jpg", "jpeg", "gif"} ]

\* sizes is kept beside the collection as the argument of the call
CreateImageCollection(f, collectionName, sizes) ==
    /\ Len(collections) < MaxCollections
    /\ factories' = [factories EXCEPT ![f].stores =
                        PushStores(f, collectionName, sizes)]
    /\ collections' = Append(collections,
          [ name    |-> collectionName,
            factory |-> f,
            sizes   |-> sizes,
            stores  |-> PushStores(f, collectionName, sizes),
            filter  |-> Filter ])
    /\ UNCHANGED <<getHeaders, protoUrl, proto_url, gmAvailable, files,
                   easyFactory, ret>>

-----------------------------------------------------------------------------
(* Uploads: the filter of the collection and the writes to its stores *)

Extensions == {"png", "PNG", "bmp"}
\* String.prototype.toLowerCase on the extensions of the model
LowerCase(e) == IF e = "PNG" THEN "png" ELSE e

ContentTypes == {<<"image", "png">>, <<"text", "plain">>}
\* a content type against a pattern such as image/*
Matches(pattern, type) ==
    /\ pattern[1] = type[1]
    /\ pattern[2] = "*" \/ pattern[2] = type[2]

FileSizes == {10 * 1024 * 1024, 10 * 1024 * 1024 + 1}

\* the first rule of the filter a file breaks, "" when it breaks none
Violation(filter, size, type, ext) ==
    IF size > filter.maxSize THEN "size"
    ELSE IF ~ \E p \in filter.contentTypes : Matches(p, type) THEN "contentType"
    ELSE IF LowerCase(ext) \notin filter.extensions THEN "extension"
    ELSE ""

\* filter.onInvalid(message): alert on the client, console.warn on the server
OnInvalid(isClient, message) ==
    [sink |-> IF isClient THEN "alert" ELSE "console.warn", message |-> message]

NoMeta == [size |-> 0, type |-> <<"", "">>, ext |-> ""]

\* a call and what it produced: result is the value returned or the error
\* thrown, invalid the onInvalid calls it made
Ret(op, c, fi, storeName, meta, result, invalid) ==
    [ op |-> op, collection |-> c, file |-> fi, store |-> storeName,
      upload |-> meta, options |-> [keys |-> {}, value |-> 0],
      result |-> result, invalid |-> invalid ]

FileIds == [n \in 1..3 |-> IF n = 1 THEN "f1" ELSE IF n = 2 THEN "f2" ELSE "f3"]

\* collection.insert(file): the filter decides, then one copy per store of
\* the collection starts
Upload(c, size, type, ext, isClient) ==
    LET why == Violation(collections[c].filter, size, type, ext)
        meta == [size |-> size, type |-> type, ext |-> ext]
    IN  IF why = ""
        THEN /\ Len(files) < MaxFiles
             /\ files' = Append(files,
                   [ collection |-> c,
                     id     |-> FileIds[Len(files) + 1],
                     name   |-> "cat." \o ext,
                     status |-> [k \in 1..Len(collections[c].stores) |-> "pending"] ])
             /\ ret' = Ret("insert", c, Len(files) + 1, "", meta,
                           [kind |-> "inserted", value |-> ""], <<>>)
             /\ UNCHANGED <<factories, getHeaders, protoUrl, proto_url,
                            collections, gmAvailable, easyFactory>>
        ELSE /\ ret' = Ret("insert", c, 0, "", meta,
                           [kind |-> "rejected", value |-> ""],
                           <<OnInvalid(isClient, why)>>)
             /\ UNCHANGED <<factories, getHeaders, protoUrl, proto_url,
                            collections, gmAvailable, files, easyFactory>>

StoreOf(fi, k) == collections[files[fi].collection].stores[k]

SetStatus(fi, k, st) == files' = [files EXCEPT ![fi].status[k] = st]

\* a transformWrite that forwards the upload as it is when gm is missing
TransformWriteForwards(fi, k, gmFails) ==
    /\ fi \in 1..Len(files)
    /\ k \in 1..Len(files[fi].status)
    /\ StoreOf(fi, k).transform
    /\ files[fi].status[k] = "pending"
    /\ IF gmAvailable
       THEN SetStatus(fi, k, IF gmFails THEN "failed" ELSE "piped")
       ELSE SetStatus(fi, k, "piped")
    /\ UNCHANGED <<factories, getHeaders, protoUrl, proto_url, collections,
                   gmAvailable, easyFactory, ret>>

\* transformWrite(fileObj, readStream, writeStream) of a sized store: with gm
\* the resized stream is piped to writeStream, unless gm fails on the image;
\* without gm a warning is logged and nothing is written
TransformWrite(fi, k, gmFails) ==
    /\ fi \in 1..Len(files)
    /\ k \in 1..Len(files[fi].status)
    /\ StoreOf(fi, k).transform
    /\ files[fi].status[k] = "pending"
    /\ IF gmAvailable
       THEN SetStatus(fi, k, IF gmFails THEN "failed" ELSE "piped")
       ELSE SetStatus(fi, k, "skipped")
    /\ UNCHANGED <<factories, getHeaders, protoUrl, proto_url, collections,
                   gmAvailable, easyFactory, ret>>

\* the write stream of a store ends: the copy is stored.  A store without
\* transformWrite receives the upload as it is.
StoreWrite(fi, k) ==
    /\ fi \in 1..Len(files)
    /\ k \in 1..Len(files[fi].status)
    /\ \/ ~ StoreOf(fi, k).transform /\ files[fi].status[k] = "pending"
       \/ StoreOf(fi, k).transform /\ files[fi].status[k] = "piped"
    /\ SetStatus(fi, k, "stored")
    /\ UNCHANGED <<factories, getHeaders, protoUrl, proto_url, collections,
                   gmAvailable, easyFactory, ret>>

-----------------------------------------------------------------------------
(* FS.File.prototype.url *)

Null == [kind |-> "null", value |-> ""]
Str(s) == [kind |-> "string", value |-> s]
Thrown(e) == [kind |-> e, value |-> ""]

StoreNames(fi) ==
    { StoreOf(fi, k).name : k \in 1..Len(files[fi].status) }

\* the file has a stored copy in the store of that name
HasStored(fi, storeName) ==
    \E k \in 1..Len(files[fi].status) :
        StoreOf(fi, k).name = storeName /\ files[fi].status[k] = "stored"

CollectionName(fi) == collections[files[fi].collection].name

\* the url method of the file package: a URL of the application server once
\* the copy is stored, null before
OriginalUrl(fi, storeName) ==
    IF HasStored(fi, storeName)
    THEN Str("/cfs/files/" \o CollectionName(fi) \o "/" \o files[fi].id
                 \o "?store=" \o storeName)
    ELSE Null

\* the URL the override builds
DirectUrl(i, fi, storeName) ==
    factories[i].bucketUrl \o storeName \o "/" \o CollectionName(fi) \o "/"
        \o files[fi].id \o "-" \o files[fi].name

\* a call of method m on the file with {store: storeName}; self._url is
\* looked up on the prototype when the override runs.  Nested deeper than
\* StackLimit the call ends in RangeError.
RECURSIVE CallMethod(_, _, _, _)
CallMethod(m, fi, storeName, depth) ==
    IF depth > StackLimit THEN Thrown("RangeError")
    ELSE IF m.kind = "original" THEN OriginalUrl(fi, storeName)
    ELSE IF m.kind = "override"
    THEN LET old == CallMethod(proto_url, fi, storeName, depth + 1)
         IN  IF old.kind = "string" /\ old.value # ""
             THEN Str(DirectUrl(m.factory, fi, storeName))
             ELSE IF old.kind = "null" THEN Null
             ELSE old
    ELSE Thrown("TypeError")

Url(fi, storeName) == CallMethod(protoUrl, fi, storeName, 1)

CallUrl(fi, storeName) ==
    /\ ret' = Ret("url", files[fi].collection, fi, storeName, NoMeta,
                  Url(fi, storeName), <<>>)
    /\ UNCHANGED <<factories, getHeaders, protoUrl, proto_url, collections,
                   gmAvailable, files, easyFactory>>

-----------------------------------------------------------------------------
(* EasyImages *)

\* an options argument of configure: value 0 is a falsy value (null,
\* undefined), value i > 0 the i-th factory
ConfigureOptions ==
    { [keys |-> {}, value |-> 0],
      [keys |-> {"imageCollectionFactory"}, value |-> 0] }
    \cup { [keys |-> {"imageCollectionFactory"}, value |-> i] :
             i \in 1..Len(factories) }

\* required(options, name)
Required(options, name) ==
    IF name \in options.keys /\ options.value # 0
    THEN [threw |-> FALSE, value |-> options.value, error |-> ""]
    ELSE [threw |-> TRUE, value |-> 0,
          error |-> "Missing required parameter '" \o name
                        \o "' for EasyImages configuration"]

\* a configure that assigns before it checks
ConfigureAssignsFirst(options) ==
    LET r == Required(options, "imageCollectionFactory")
    IN  /\ easyFactory' = options.value
        /\ ret' = [Ret("configure", 0, 0, "", NoMeta,
                       IF r.threw
                       THEN [kind |-> "Meteor.Error", value |-> r.error]
                       ELSE [kind |-> "undefined", value |-> ""], <<>>)
                      EXCEPT !.options = options]
        /\ UNCHANGED <<factories, getHeaders, protoUrl, proto_url, collections,
                       gmAvailable, files>>

Configure(options) ==
    LET r == Required(options, "imageCollectionFactory")
    IN  /\ IF r.threw
           THEN /\ UNCHANGED easyFactory
                /\ ret' = [Ret("configure", 0, 0, "", NoMeta,
                               [kind |-> "Meteor.Error", value |-> r.error], <<>>)
                              EXCEPT !.options = options]
           ELSE /\ easyFactory' = r.value
                /\ ret' = [Ret("configure", 0, 0, "", NoMeta,
                               [kind |-> "undefined", value |-> ""], <<>>)
                              EXCEPT !.options = options]
        /\ UNCHANGED <<factories, getHeaders, protoUrl, proto_url, collections,
                       gmAvailable, files>>

\* EasyImages.bucketUrl()
EasyBucketUrl ==
    /\ ret' = Ret("bucketUrl", 0, 0, "", NoMeta,
                  IF easyFactory = 0 THEN Thrown("TypeError")
                  ELSE Str(factories[easyFactory].bucketUrl), <<>>)
    /\ UNCHANGED <<factories, getHeaders, protoUrl, proto_url, collections,
                   gmAvailable, files, easyFactory>>

-----------------------------------------------------------------------------

NoRet == Ret("none", 0, 0, "", NoMeta, [kind |-> "undefined", value |-> ""], <<>>)

Init ==
    /\ factories = <<>>
    /\ getHeaders = <<>>
    /\ protoUrl = OriginalMethod
    /\ proto_url = NoMethod
    /\ collections = <<>>
    /\ gmAvailable \in BOOLEAN
    /\ files = <<>>
    /\ easyFactory = 0
    /\ ret = NoRet

\* EasyImages configured with the factories constructed
Next ==
    \/ \E b \in BucketNames, o \in OptionsSet : NewFactory(b, o)
    \/ \E o \in ConfigureOptions : Configure(o)
    \/ EasyBucketUrl

Spec == Init /\ [][Next]_vars

\* the collections the factories create
NextCollections ==
    \/ \E b \in BucketNames, o \in OptionsSet : NewFactory(b, o)
    \/ \E f \in 1..Len(factories), n \in CollectionNames, s \in SizesSet :
          CreateImageCollection(f, n, s)

SpecCollections == Init /\ [][NextCollections]_vars

\* the files handed to the filter of a collection
FilterSizes == { <<Size("thumb", 50, 50)>> }

NextFilter ==
    \/ \E b \in FilesBucketNames : NewFactory(b, NoOptions)
    \/ \E f \in 1..Len(factories), n \in FilesCollectionNames, s \in FilterSizes :
          CreateImageCollection(f, n, s)
    \/ \E c \in 1..Len(collections), size \in FileSizes, type \in ContentTypes,
          ext \in Extensions, isClient \in BOOLEAN :
          Upload(c, size, type, ext, isClient)

\* on a server where gm is installed
InitWithGm == Init /\ gmAvailable

SpecFilter == InitWithGm /\ [][NextFilter]_vars

\* the writes of the admitted files and the url calls on them
WritesSizes == {10 * 1024 * 1024}
WritesExtensions == {"png"}

NextFiles ==
    \/ \E b \in FilesBucketNames, o \in FilesOptions : NewFactory(b, o)
    \/ \E f \in 1..Len(factories), n \in FilesCollectionNames, s \in FilesSizes :
          /\ Len(factories[f].stores) + 1 + Len(s) <= MaxStores
          /\ CreateImageCollection(f, n, s)
    \/ \E c \in 1..Len(collections), size \in WritesSizes, type \in ContentTypes,
          ext \in WritesExtensions : Upload(c, size, type, ext, FALSE)
    \/ \E fi \in 1..MaxFiles, k \in 1..MaxStores, gmFails \in BOOLEAN :
          TransformWrite(fi, k, gmFails)
    \/ \E fi \in 1..MaxFiles, k \in 1..MaxStores : StoreWrite(fi, k)
    \/ \E fi \in 1..Len(files) : \E s \in StoreNames(fi) : CallUrl(fi, s)

SpecFiles == Init /\ [][NextFiles]_vars

\* the writes alone, every started write being served in the end
WritesTypes == {<<"image", "png">>}
WritesSizesSet == { <<Size("thumb", 50, 50), Size("normal", 800, 400)>> }

NextWrites ==
    \/ \E b \in FilesBucketNames : NewFactory(b, NoOptions)
    \/ \E f \in 1..Len(factories), n \in FilesCollectionNames, s \in WritesSizesSet :
          /\ Len(factories[f].stores) + 1 + Len(s) <= MaxStores
          /\ CreateImageCollection(f, n, s)
    \/ \E c \in 1..Len(collections), size \in WritesSizes, type \in WritesTypes,
          ext \in WritesExtensions : Upload(c, size, type, ext, FALSE)
    \/ \E fi \in 1..MaxFiles, k \in 1..MaxStores, gmFails \in BOOLEAN :
          TransformWrite(fi, k, gmFails)
    \/ \E fi \in 1..MaxFiles, k \in 1..MaxStores : StoreWrite(fi, k)

FairSpecWrites ==
    /\ Init
    /\ [][NextWrites]_vars
    /\ \A fi \in 1..MaxFiles, k \in 1..MaxStores :
          /\ WF_vars(\E gmFails \in BOOLEAN : TransformWrite(fi, k, gmFails))
          /\ WF_vars(StoreWrite(fi, k))

-----------------------------------------------------------------------------
(* Properties *)

\* C1: a collection created with N >= 1 sizes holds exactly N+1 stores: one
\* named <collection>-original without transform, and for every entry of
\* sizes one named <collection>-<size> whose transform has its dimensions;
\* also when the factory created collections before.
C1_StoresPerCall ==
    \A i \in 1..Len(collections) :
        LET c == collections[i]
            n == Len(c.sizes)
        IN  n >= 1 =>
            /\ Len(c.stores) = n + 1
            /\ Cardinality({k \in 1..Len(c.stores) : ~ c.stores[k].transform}) = 1
            /\ \A k \in 1..Len(c.stores) :
                  ~ c.stores[k].transform =>
                      c.stores[k].name = c.name \o "-original"
            /\ Cardinality({k \in 1..Len(c.stores) : c.stores[k].transform}) = n
            /\ \A j \in 1..n : \E k \in 1..Len(c.stores) :
                  /\ c.stores[k].transform
                  /\ c.stores[k].name = c.name \o "-" \o c.sizes[j].name
                  /\ <<c.stores[k].x, c.stores[k].y>> = c.sizes[j].dimensions

\* C4: no collection is returned for an empty collection name, for a width
\* or height <= 0, or when two store names collide; the store names of a
\* returned collection are pairwise distinct.
C4_ConfigurationError ==
    \A i \in 1..Len(collections) :
        LET c == collections[i]
        IN  /\ c.name # ""
            /\ \A j \in 1..Len(c.sizes) :
                  c.sizes[j].dimensions[1] > 0 /\ c.sizes[j].dimensions[2] > 0
            /\ \A k, l \in 1..Len(c.stores) :
                  k # l => c.stores[k].name # c.stores[l].name
            /\ \A l \in 1..Len(collections) :
                  (l # i /\ collections[l].factory = c.factory)
                      => collections[l].name # c.name

\* C5: two createImageCollection calls on one factory with the same
\* collection name and sizes return collections with the same store lists.
C5_Idempotent ==
    \A i, j \in 1..Len(collections) :
        ( /\ collections[i].factory = collections[j].factory
          /\ collections[i].name = collections[j].name
          /\ collections[i].sizes = collections[j].sizes )
        => collections[i].stores = collections[j].stores

PublicFactories == {i \in 1..Len(factories) : factories[i].publicRead}
FirstPublic == CHOOSE i \in PublicFactories : \A j \in PublicFactories : i <= j
FactoryOf(fi) == collections[files[fi].collection].factory

\* C2: with a public-read factory, url(file, {store: s}) is null while the
\* copy in s is not stored and bucketUrl + s + "/" + collectionName + "/" +
\* fileId + "-" + fileName once it is.
C2_PublicUrl ==
    PublicFactories # {} =>
        \A fi \in 1..Len(files) : \A s \in StoreNames(fi) :
            Url(fi, s) =
                IF HasStored(fi, s)
                THEN Str(factories[FirstPublic].bucketUrl \o s \o "/"
                            \o CollectionName(fi) \o "/" \o files[fi].id
                            \o "-" \o files[fi].name)
                ELSE Null

\* C3: for a file of a collection of a factory without publicRead, url is
\* the result of the url method of the file package, whatever other
\* factories exist.
C3_PrivateNeverDirect ==
    \A fi \in 1..Len(files) :
        ~ factories[FactoryOf(fi)].publicRead =>
            \A s \in StoreNames(fi) : Url(fi, s) = OriginalUrl(fi, s)

\* C10: once public-read factories were constructed, _url is the url method
\* of the file package, the installed override is the one of the first of
\* them, and every url call ends with null or a URL.
C10_UrlTerminates ==
    PublicFactories # {} =>
        /\ proto_url = OriginalMethod
        /\ protoUrl = OverrideMethod(FirstPublic)
        /\ \A fi \in 1..Len(files) : \A s \in StoreNames(fi) :
              Url(fi, s).kind \in {"null", "string"}

AllowedExtensions ==
    {"png", "jpg", "jpeg", "gif", "PNG", "JPG", "JPEG", "GIF"}

\* C6: an insert is accepted iff size <= 10 MiB, the content type is
\* image/* and the extension is png, jpg, jpeg or gif in any case; a
\* rejected insert calls onInvalid once and leaves every store without a
\* copy, an accepted one calls it never and starts a copy in every store.
C6_UploadFilter ==
    [][ (ret' # ret /\ ret'.op = "insert") =>
            LET m == ret'.upload
                ok == /\ m.size <= 10485760
                      /\ m.type[1] = "image"
                      /\ m.ext \in AllowedExtensions
            IN  /\ (ret'.result.kind = "inserted") <=> ok
                /\ ~ ok => /\ ret'.result.kind = "rejected"
                           /\ Len(ret'.invalid) = 1
                           /\ files' = files
                /\ ok => /\ ret'.invalid = <<>>
                         /\ Len(files') = Len(files) + 1
                         /\ Len(files'[Len(files')].status)
                               = Len(collections[ret'.collection].stores)
      ]_vars

\* a file of type text/plain named .png was rejected with one onInvalid call
C6_Witness ==
    /\ ret.op = "insert"
    /\ ret.result.kind = "rejected"
    /\ ret.upload.size = 10485760
    /\ ret.upload.type = <<"text", "plain">>
    /\ ret.upload.ext = "png"
    /\ Len(ret.invalid) = 1

\* C7: bucketUrl is "https://" + bucketName + suffix + ".s3.amazonaws.com/",
\* the suffix being "" without options, without bucketRegion or with an
\* empty one, and "-" + bucketRegion otherwise; EasyImages.bucketUrl()
\* returns the bucketUrl of the configured factory.
C7_BucketUrl ==
    /\ \A i \in 1..Len(factories) :
          LET f == factories[i]
              region == IF f.options.defined /\ "bucketRegion" \in f.options.keys
                        THEN f.options.bucketRegion ELSE ""
          IN  /\ f.bucketUrl =
                    IF region = ""
                    THEN "https://" \o f.bucketName \o ".s3.amazonaws.com/"
                    ELSE "https://" \o f.bucketName \o "-" \o region
                             \o ".s3.amazonaws.com/"
              /\ (f.bucketName = "photos" /\ region = "")
                    => f.bucketUrl = "https://photos.s3.amazonaws.com/"
              /\ (f.bucketName = "photos" /\ region = "eu-west-1")
                    => f.bucketUrl = "https://photos-eu-west-1.s3.amazonaws.com/"
    /\ (ret.op = "bucketUrl" /\ easyFactory # 0)
          => ret.result = Str(factories[easyFactory].bucketUrl)

\* EasyImages.bucketUrl() returned the URL of a bucket with a region
C7_Witness ==
    /\ ret.op = "bucketUrl"
    /\ ret.result = Str("https://photos-eu-west-1.s3.amazonaws.com/")

MissingFactoryError ==
    [ kind |-> "Meteor.Error",
      value |-> "Missing required parameter 'imageCollectionFactory' for EasyImages configuration" ]

\* C8: configure throws the "Missing required parameter" error exactly when
\* options.imageCollectionFactory is absent or falsy and then leaves the
\* configured factory as it was; otherwise it stores the factory given.
C8_Configure ==
    [][ (ret' # ret /\ ret'.op = "configure") =>
            LET o == ret'.options
            IN  IF "imageCollectionFactory" \notin o.keys \/ o.value = 0
                THEN ret'.result = MissingFactoryError /\ easyFactory' = easyFactory
                ELSE ret'.result.kind = "undefined" /\ easyFactory' = o.value
      ]_vars

\* configure failed after a factory had been configured
C8_Witness ==
    /\ ret.op = "configure"
    /\ ret.result = MissingFactoryError
    /\ easyFactory # 0

HasCopy(fi, k) == fi \in 1..Len(files) /\ k \in 1..Len(files[fi].status)
Status(fi, k) == IF HasCopy(fi, k) THEN files[fi].status[k] ELSE "none"

\* no copy is waiting for its transform or for the end of its write
Settled ==
    \A fi \in 1..Len(files) : \A k \in 1..Len(files[fi].status) :
        Status(fi, k) \in {"stored", "failed", "skipped"}

\* C9: a copy whose transform failed, or was skipped for want of gm, stays
\* as it is and is never stored; without gm no sized store ever stores; a
\* stored copy stays stored; the copy of a store without transform, and a
\* copy whose transform has piped its output, can only become stored, and
\* does: again and again no copy is left waiting, whatever became of the
\* other copies of the file.
C9_IndependentWrites ==
    /\ [][ \A fi \in 1..Len(files) : \A k \in 1..Len(files[fi].status) :
              /\ Status(fi, k) \in {"failed", "skipped", "stored"}
                    => files'[fi].status[k] = Status(fi, k)
              /\ (~ gmAvailable /\ StoreOf(fi, k).transform)
                    => files'[fi].status[k] \in {"pending", "skipped"}
              /\ (Status(fi, k) = "piped" \/ ~ StoreOf(fi, k).transform)
                    => files'[fi].status[k] \in {Status(fi, k), "stored"} ]_vars
    /\ []<>Settled

\* one sized copy failed while the original and another sized copy are stored
C9_Witness ==
    \E fi \in 1..Len(files) : \E k, l, o \in 1..Len(files[fi].status) :
        /\ k # l
        /\ StoreOf(fi, k).transform /\ Status(fi, k) = "failed"
        /\ StoreOf(fi, l).transform /\ Status(fi, l) = "stored"
        /\ ~ StoreOf(fi, o).transform /\ Status(fi, o) = "stored"

====
